---- MODULE Spec2Model ----
(***************************************************************************)
(* A model of spinneret.eml: the GeographicCoverage class, which reads a   *)
(* geographicCoverage node of an EML document, classifies its geometry and *)
(* converts it to ESRI JSON and GeoJSON geometries.                        *)
(*                                                                         *)
(* Python values are tagged records (field t), so that any two values can  *)
(* be compared the way Python's == compares them:                          *)
(*   None             [t |-> "None"]                                       *)
(*   a float          [t |-> "float", sg, mag]   (exact decimal, below)    *)
(*   float("NaN")     [t |-> "nan"]                                        *)
(*   a str            [t |-> "str", c |-> <<characters>>]                  *)
(*   a list           [t |-> "list", v |-> <<items>>]                      *)
(*   a dict           [t |-> "dict", key |-> value, ...]                   *)
(*   json.dumps(d)    [t |-> "json", v |-> d]                              *)
(*   a raised error   [t |-> "raise", exc |-> <<name>>]                    *)
(***************************************************************************)
EXTENDS Integers, Sequences, FiniteSets, TLC

VARIABLES gc, op, ret, warned, calls, batch

vars == <<gc, op, ret, warned, calls, batch>>

(***************************************************************************)
(* Numbers.  A float is modelled by an exact signed decimal with 24        *)
(* fractional digits: sg is its sign (-1, 0, 1) and mag its magnitude in   *)
(* limbs of four decimal digits, least significant first; the first        *)
(* FracLimbs limbs are the fractional part.  Every value the model reaches *)
(* is exactly representable, so float rounding is not modelled.            *)
(***************************************************************************)
Base == 100 * 100

ZeroMag == <<0, 0, 0, 0, 0, 0, 0, 0>>

NumLimbs == Len(ZeroMag)

FracLimbs == NumLimbs - 2

None == [t |-> "None"]

NaN == [t |-> "nan"]

Num(sg, mag) == [t |-> "float", sg |-> IF mag = ZeroMag THEN 0 ELSE sg, mag |-> mag]

Zero == Num(0, ZeroMag)

IsNum(x) == x.t = "float"

IsNaN(x) == x.t = "nan"

Raise(name) == [t |-> "raise", exc |-> name]

IsRaise(x) == x.t = "raise"

\* The decimal i.abcdef with six groups of four fractional digits.
Dec(i, a, b, c, d, e, f) ==
    Num(1, <<f, e, d, c, b, a, i % Base, i \div Base>>)

FromInt(n) ==
    IF n < 0 THEN Num(-1, Dec(-n, 0, 0, 0, 0, 0, 0).mag)
             ELSE Dec(n, 0, 0, 0, 0, 0, 0)

RECURSIVE Carry(_, _, _)
Carry(cols, i, c) ==
    IF i > Len(cols) THEN <<>>
    ELSE LET s == cols[i] + c
         IN  <<s % Base>> \o Carry(cols, i + 1, s \div Base)

RECURSIVE Borrow(_, _, _, _)
Borrow(a, b, i, c) ==
    IF i > Len(a) THEN <<>>
    ELSE LET s == a[i] - b[i] - c
         IN  IF s < 0 THEN <<s + Base>> \o Borrow(a, b, i + 1, 1)
                      ELSE <<s>> \o Borrow(a, b, i + 1, 0)

\* TRUE iff magnitude a is smaller than magnitude b (compared from limb i down).
RECURSIVE MagLess(_, _, _)
MagLess(a, b, i) ==
    IF i = 0 THEN FALSE
    ELSE IF a[i] # b[i] THEN a[i] < b[i]
    ELSE MagLess(a, b, i - 1)

AddMag(a, b) == SubSeq(Carry([i \in 1..NumLimbs |-> a[i] + b[i]], 1, 0), 1, NumLimbs)

SubMag(a, b) == Borrow(a, b, 1, 0)

\* Python's float + float
Add(x, y) ==
    IF x.sg = 0 THEN y
    ELSE IF y.sg = 0 THEN x
    ELSE IF x.sg = y.sg THEN Num(x.sg, AddMag(x.mag, y.mag))
    ELSE IF x.mag = y.mag THEN Zero
    ELSE IF MagLess(x.mag, y.mag, NumLimbs) THEN Num(y.sg, SubMag(y.mag, x.mag))
    ELSE Num(x.sg, SubMag(x.mag, y.mag))

RECURSIVE SumCol(_, _, _, _)
SumCol(a, b, k, i) ==
    IF i > Len(a) \/ i > k THEN 0
    ELSE (IF k + 1 - i <= Len(b) THEN a[i] * b[k + 1 - i] ELSE 0)
         + SumCol(a, b, k, i + 1)

MulMag(a, b) ==
    SubSeq(Carry([k \in 1..(2 * NumLimbs) |-> SumCol(a, b, k, 1)], 1, 0),
           FracLimbs + 1, FracLimbs + NumLimbs)

\* Python's float * float (NaN * y is NaN)
Mul(x, y) ==
    IF IsNaN(x) \/ IsNaN(y) THEN NaN
    ELSE Num(x.sg * y.sg, MulMag(x.mag, y.mag))

RECURSIVE HalfMag(_, _, _)
HalfMag(a, i, r) ==
    IF i = 0 THEN <<>>
    ELSE LET s == r * Base + a[i]
         IN  HalfMag(a, i - 1, s % 2) \o <<s \div 2>>

\* Python's float / 2
Half(x) == Num(x.sg, HalfMag(x.mag, NumLimbs, 0))

(***************************************************************************)
(* Strings.  A text the code parses is [t |-> "str", c |-> <<characters>>];*)
(* a text the code only compares or looks up (a unit name, a description)  *)
(* is [t |-> "str", s |-> "name"].                                         *)
(***************************************************************************)
Str(cs) == [t |-> "str", c |-> cs]

Name(s) == [t |-> "str", s |-> s]

List(items) == [t |-> "list", v |-> items]

Digits == <<"0", "1", "2", "3", "4", "5", "6", "7", "8", "9">>

IsDigit(ch) == \E d \in 1..Len(Digits) : Digits[d] = ch

DigitVal(ch) == (CHOOSE d \in 1..Len(Digits) : Digits[d] = ch) - 1

IsSpace(ch) == ch = " "

RECURSIVE ToNat(_, _)
ToNat(cs, acc) ==
    IF cs = <<>> THEN acc ELSE ToNat(Tail(cs), acc * Len(Digits) + DigitVal(Head(cs)))

\* float(s) for a str s: an optional sign followed by decimal digits is the
\* part of Python's float syntax the model covers; any other text raises
\* ValueError.
ParseFloat(cs) ==
    LET signed == cs # <<>> /\ Head(cs) \in {"-", "+"}
        body   == IF signed THEN Tail(cs) ELSE cs
    IN  IF body = <<>> \/ \E i \in 1..Len(body) : ~IsDigit(body[i])
        THEN Raise("ValueError")
        ELSE IF signed /\ Head(cs) = "-" THEN FromInt(-ToNat(body, 0))
        ELSE FromInt(ToNat(body, 0))

\* float(x) as the accessors call it: float(None) raises TypeError
Float(x) == IF x = None THEN Raise("TypeError") ELSE ParseFloat(x.c)

\* str.split(): the maximal runs of non-whitespace characters
RECURSIVE SplitWs(_, _)
SplitWs(cs, cur) ==
    IF cs = <<>> THEN (IF cur = <<>> THEN <<>> ELSE <<cur>>)
    ELSE IF IsSpace(Head(cs))
         THEN (IF cur = <<>> THEN <<>> ELSE <<cur>>) \o SplitWs(Tail(cs), <<>>)
         ELSE SplitWs(Tail(cs), Append(cur, Head(cs)))

\* str.split(sep): the pieces between separators, empty pieces kept
RECURSIVE SplitOn(_, _, _)
SplitOn(cs, sep, cur) ==
    IF cs = <<>> THEN <<cur>>
    ELSE IF Head(cs) = sep THEN <<cur>> \o SplitOn(Tail(cs), sep, <<>>)
    ELSE SplitOn(Tail(cs), sep, Append(cur, Head(cs)))

\* bool(x) for the values a coordinate list holds
Truthy(x) ==
    CASE x.t = "None"  -> FALSE
      [] x.t = "float" -> x.sg # 0
      [] x.t = "str"   -> x.c # <<>>
      [] OTHER         -> TRUE

\* list(filter(None, item)): the truthy items, in order
FilterNone(item) == List(SelectSeq(item.v, Truthy))

\* json.dumps(res): the serialisation is kept as the value it serialises
Dumps(res) == [t |-> "json", v |-> res]

AnyRaise(vals) == \E i \in 1..Len(vals) : IsRaise(vals[i])

FirstRaise(vals) ==
    vals[CHOOSE i \in 1..Len(vals) :
            IsRaise(vals[i]) /\ \A j \in 1..(i - 1) : ~IsRaise(vals[j])]

WKID == 4326

(***************************************************************************)
(* The coverage node self.gc, a record with one field per element name.    *)
(* boundingCoordinates and datasetGPolygon say whether the node has that   *)
(* element (what find returns is not None); every other field is the text *)
(* of the element, or None when the element is missing (what findtext      *)
(* returns).  datasetGPolygonOuterGRing and datasetGPolygonExclusionGRing  *)
(* hold the text of their gRing child.                                     *)
(***************************************************************************)
FindText(g, tag) == g[tag]

\* self.gc.find(".//tag") is not None
Find(g, tag) == g[tag]

\* get_geographic_coverage wraps each node in a GeographicCoverage
GeographicCoverage(node) == node

description(g) == FindText(g, "geographicDescription")

\* An absent element read as the number 0
ZeroOnTypeError(res) ==
    IF IsRaise(res) /\ res.exc = "TypeError" THEN Zero ELSE res

\* try: return float(...)  except TypeError: return None
NoneOnTypeError(res) ==
    IF IsRaise(res) /\ res.exc = "TypeError" THEN None ELSE res

BoundingCoordinate(g, tag) == NoneOnTypeError(Float(FindText(g, tag)))

west(g) == BoundingCoordinate(g, "westBoundingCoordinate")

east(g) == BoundingCoordinate(g, "eastBoundingCoordinate")

north(g) == BoundingCoordinate(g, "northBoundingCoordinate")

south(g) == BoundingCoordinate(g, "southBoundingCoordinate")

altitude_units(g) == FindText(g, "altitudeUnits")

outer_gring(g) == FindText(g, "datasetGPolygonOuterGRing")

exclusion_gring(g) == FindText(g, "datasetGPolygonExclusionGRing")

\* The table with the factors of foot and Foot_US exchanged
ConversionFactorsFeetExchanged ==
    [ meter           |-> FromInt(1),
      decimeter       |-> Dec(0, 1000, 0, 0, 0, 0, 0),
      dekameter       |-> FromInt(10),
      hectometer      |-> FromInt(100),
      kilometer       |-> FromInt(1000),
      megameter       |-> FromInt(1000000),
      Foot_US         |-> Dec(0, 3048, 0, 0, 0, 0, 0),
      foot            |-> Dec(0, 3048, 60, 0, 0, 0, 0),
      Foot_Gold_Coast |-> Dec(0, 3047, 9970, 0, 0, 0, 0),
      fathom          |-> Dec(1, 8288, 0, 0, 0, 0, 0),
      nauticalMile    |-> FromInt(1852),
      yard            |-> Dec(0, 9144, 0, 0, 0, 0, 0),
      Yard_Indian     |-> Dec(0, 9143, 9853, 744, 4407, 7400, 0),
      Link_Clarke     |-> Dec(0, 2011, 6619, 4900, 0, 0, 0),
      Yard_Sears      |-> Dec(0, 9143, 9841, 4616, 286, 7000, 0),
      mile            |-> Dec(1609, 3440, 0, 0, 0, 0, 0) ]

\* _load_conversion_factors(): the factors to meters, by unit name
ConversionFactors ==
    [ meter           |-> FromInt(1),
      decimeter       |-> Dec(0, 1000, 0, 0, 0, 0, 0),
      dekameter       |-> FromInt(10),
      hectometer      |-> FromInt(100),
      kilometer       |-> FromInt(1000),
      megameter       |-> FromInt(1000000),
      Foot_US         |-> Dec(0, 3048, 60, 0, 0, 0, 0),
      foot            |-> Dec(0, 3048, 0, 0, 0, 0, 0),
      Foot_Gold_Coast |-> Dec(0, 3047, 9970, 0, 0, 0, 0),
      fathom          |-> Dec(1, 8288, 0, 0, 0, 0, 0),
      nauticalMile    |-> FromInt(1852),
      yard            |-> Dec(0, 9144, 0, 0, 0, 0, 0),
      Yard_Indian     |-> Dec(0, 9143, 9853, 744, 4407, 7400, 0),
      Link_Clarke     |-> Dec(0, 2011, 6619, 4900, 0, 0, 0),
      Yard_Sears      |-> Dec(0, 9143, 9841, 4616, 286, 7000, 0),
      mile            |-> Dec(1609, 3440, 0, 0, 0, 0, 0) ]

\* conversion_factors.get(from_units, float("NaN"))
FactorGet(from_units) ==
    IF from_units.t = "str" /\ from_units.s \in DOMAIN ConversionFactors
    THEN ConversionFactors[from_units.s]
    ELSE NaN

\* An absent value turned into the number 0
NoneToZero(x) == IF x = None THEN Zero ELSE x

\* if x is None: x = float("NaN")
NoneToNaN(x) == IF x = None THEN NaN ELSE x

\* if isnan(x): x = None
NaNToNone(x) == IF IsNaN(x) THEN None ELSE x

\* The factor applied without the isnan test, so that the NaN of an
\* unrecognized unit reaches x
ApplyFactorUnguarded(x, conversion_factor) == Mul(x, conversion_factor)

\* if not isnan(conversion_factor): x = x * conversion_factor
ApplyFactor(x, conversion_factor) ==
    IF ~IsNaN(conversion_factor) THEN Mul(x, conversion_factor) ELSE x

_convert_to_meters(x, from_units) ==
    NaNToNone(ApplyFactor(NoneToNaN(x), FactorGet(from_units)))

\* The conversion applied whether or not it was asked for
AltitudeResultConverted(g, res, to_meters) ==
    IF IsRaise(res) THEN res
    ELSE _convert_to_meters(res, altitude_units(g))

\* if to_meters is True: res = self._convert_to_meters(res, self.altitude_units())
AltitudeResult(g, res, to_meters) ==
    IF IsRaise(res) THEN res
    ELSE IF to_meters THEN _convert_to_meters(res, altitude_units(g))
    ELSE res

altitude_minimum(g, to_meters) ==
    AltitudeResult(g, NoneOnTypeError(Float(FindText(g, "altitudeMinimum"))),
                   to_meters)

altitude_maximum(g, to_meters) ==
    AltitudeResult(g, NoneOnTypeError(Float(FindText(g, "altitudeMaximum"))),
                   to_meters)

\* The names with a point called an envelope under the esri schema
KindNamePointAsEnvelope(kind, schema) ==
    IF schema = "eml" THEN Name(kind)
    ELSE CASE kind = "polygon"  -> Name("esriGeometryPolygon")
           [] kind = "point"    -> Name("esriGeometryEnvelope")
           [] kind = "envelope" -> Name("esriGeometryEnvelope")

\* The name geom_type returns for a kind under a schema
KindName(kind, schema) ==
    IF schema = "eml" THEN Name(kind)
    ELSE CASE kind = "polygon"  -> Name("esriGeometryPolygon")
           [] kind = "point"    -> Name("esriGeometryPoint")
           [] kind = "envelope" -> Name("esriGeometryEnvelope")

\* self.west() == self.east() and self.north() == self.south(), where the
\* second comparison is evaluated only if the first holds
BoxKind(w, e, n, s, schema) ==
    IF IsRaise(w) THEN w
    ELSE IF IsRaise(e) THEN e
    ELSE IF w # e THEN KindName("envelope", schema)
    ELSE IF IsRaise(n) THEN n
    ELSE IF IsRaise(s) THEN s
    ELSE IF n = s THEN KindName("point", schema)
    ELSE KindName("envelope", schema)

geom_type(g, schema) ==
    IF Find(g, "datasetGPolygon") THEN KindName("polygon", schema)
    ELSE IF Find(g, "boundingCoordinates")
    THEN BoxKind(west(g), east(g), north(g), south(g), schema)
    ELSE None

\* A result with the number of warnings issued while computing it
Res(val, warns) == [val |-> val, warns |-> warns]

\* The average computed without the warning
AverageSilent(altitude_min, altitude_max) ==
    IF IsRaise(altitude_min) THEN Res(altitude_min, 0)
    ELSE IF IsRaise(altitude_max) THEN Res(altitude_max, 0)
    ELSE IF altitude_min = None \/ altitude_max = None THEN Res(None, 0)
    ELSE Res(Half(Add(altitude_min, altitude_max)), 0)

\* The average with the single present value substituted when the other is
\* absent
AverageSubstituting(altitude_min, altitude_max) ==
    IF IsRaise(altitude_min) THEN Res(altitude_min, 0)
    ELSE IF IsRaise(altitude_max) THEN Res(altitude_max, 0)
    ELSE IF altitude_min = None THEN Res(altitude_max, 0)
    ELSE IF altitude_max = None THEN Res(altitude_min, 0)
    ELSE Res(Half(Add(altitude_min, altitude_max)),
             IF altitude_min # altitude_max THEN 1 ELSE 0)

\* z = (altitude_minimum + altitude_maximum) / 2, with a warning if the two
\* differ; the TypeError of an addition with None is caught and gives None
Average(altitude_min, altitude_max) ==
    IF IsRaise(altitude_min) THEN Res(altitude_min, 0)
    ELSE IF IsRaise(altitude_max) THEN Res(altitude_max, 0)
    ELSE IF altitude_min = None \/ altitude_max = None THEN Res(None, 0)
    ELSE Res(Half(Add(altitude_min, altitude_max)),
             IF altitude_min # altitude_max THEN 1 ELSE 0)

_average_altitudes(g) ==
    Average(altitude_minimum(g, TRUE), altitude_maximum(g, TRUE))

\* The _convert_to_meters invocations of one altitude accessor call, each as
\* its arguments <<x, from_units>>: one if to_meters is True, none otherwise
ConvertCalls(g, res, to_meters) ==
    IF to_meters /\ ~IsRaise(res) THEN << <<res, altitude_units(g)>> >> ELSE <<>>

MinimumCalls(g, to_meters) ==
    ConvertCalls(g, NoneOnTypeError(Float(FindText(g, "altitudeMinimum"))),
                 to_meters)

MaximumCalls(g, to_meters) ==
    ConvertCalls(g, NoneOnTypeError(Float(FindText(g, "altitudeMaximum"))),
                 to_meters)

\* altitude_minimum(to_meters=True) followed by altitude_maximum(to_meters=
\* True), the second reached only if the first did not raise
BothCalls(g) ==
    IF MinimumCalls(g, TRUE) = <<>> THEN <<>>
    ELSE MinimumCalls(g, TRUE) \o MaximumCalls(g, TRUE)

\* The invocations made by to_esri_geometry: those of _to_esri_envelope
EsriConvertCalls(g, gt) ==
    IF gt = Name("point") \/ gt = Name("envelope") THEN BothCalls(g) ELSE <<>>

\* The invocations made by _to_geojson_polygon: those of its one call of
\* _average_altitudes
PolygonConvertCalls(g, gt) ==
    IF gt = Name("envelope") \/ (gt = Name("polygon") /\ outer_gring(g) # None)
    THEN BothCalls(g)
    ELSE <<>>

PointConvertCalls(g, gt) ==
    IF gt = Name("point") THEN BothCalls(g) ELSE <<>>

GeojsonConvertCalls(g, gt) ==
    IF gt = Name("point") THEN PointConvertCalls(g, gt)
    ELSE PolygonConvertCalls(g, gt)

SpatialReference == [t |-> "dict", wkid |-> WKID]

\* An envelope whose zmax is filled from the minimum altitude: zmin and zmax
\* no longer independent of each other
EsriEnvelopeZCoupled(vals) ==
    IF AnyRaise(vals) THEN FirstRaise(vals)
    ELSE Dumps([t |-> "dict",
                xmin |-> vals[3],
                ymin |-> vals[4],
                xmax |-> vals[5],
                ymax |-> vals[6],
                zmin |-> vals[1],
                zmax |-> vals[1],
                spatialReference |-> SpatialReference])

\* The dict of _to_esri_envelope, its values in the order the code
\* evaluates them
EsriEnvelope(vals) ==
    IF AnyRaise(vals) THEN FirstRaise(vals)
    ELSE Dumps([t |-> "dict",
                xmin |-> vals[3],
                ymin |-> vals[4],
                xmax |-> vals[5],
                ymax |-> vals[6],
                zmin |-> vals[1],
                zmax |-> vals[2],
                spatialReference |-> SpatialReference])

_to_esri_envelope(g) ==
    EsriEnvelope(<<altitude_minimum(g, TRUE), altitude_maximum(g, TRUE),
                   west(g), south(g), east(g), north(g)>>)

\* [float(x[0]), float(x[1])] + extra, for the pieces x of one token
VertexOf(x0, x1, extra) ==
    IF IsRaise(x0) THEN x0
    ELSE IF IsRaise(x1) THEN x1
    ELSE List(<<x0, x1>> \o extra)

SecondPiece(x) == IF Len(x) < 2 THEN Raise("IndexError") ELSE ParseFloat(x[2])

Pieces(x, extra) == VertexOf(ParseFloat(x[1]), SecondPiece(x), extra)

\* One pass of the loop of _format_ring: the vertex of one token, with the
\* extra components the caller appends to it
Vertex(item, extra) == Pieces(SplitOn(item, ",", <<>>), extra)

\* "Ensure that the first and last points are the same"
CloseRing(ring) ==
    IF ring[1] # ring[Len(ring)] THEN Append(ring, ring[1]) ELSE ring

\* The vertices of the tokens, in order (the loop of _format_ring)
RECURSIVE Vertices(_, _)
Vertices(items, extra) ==
    IF items = <<>> THEN <<>>
    ELSE <<Vertex(Head(items), extra)>> \o Vertices(Tail(items), extra)

\* The loop's result closed: the first error if a pass raised, IndexError
\* for ring[0] of an empty list
ClosedRing(ring) ==
    IF AnyRaise(ring) THEN FirstRaise(ring)
    ELSE IF ring = <<>> THEN Raise("IndexError")
    ELSE List(CloseRing(ring))

\* _format_ring of _to_esri_polygon
EsriFormatRing(gring) == ClosedRing(Vertices(SplitWs(gring.c, <<>>), <<>>))

EsriPolygon(rings) ==
    IF AnyRaise(rings) THEN FirstRaise(rings)
    ELSE Dumps([t |-> "dict",
                rings |-> List(rings),
                spatialReference |-> SpatialReference])

\* The polygon emitter giving a polygon without rings where the node has no
\* outer ring
EsriPolygonWithoutRing(g) ==
    IF outer_gring(g) # None
    THEN EsriPolygon(<<EsriFormatRing(outer_gring(g))>>
                     \o IF exclusion_gring(g) # None
                        THEN <<EsriFormatRing(exclusion_gring(g))>>
                        ELSE <<>>)
    ELSE EsriPolygon(<<>>)

_to_esri_polygon(g) ==
    IF outer_gring(g) # None
    THEN EsriPolygon(<<EsriFormatRing(outer_gring(g))>>
                     \o IF exclusion_gring(g) # None
                        THEN <<EsriFormatRing(exclusion_gring(g))>>
                        ELSE <<>>)
    ELSE None

\* The dispatch with the envelope as the fallback for an unclassified node
EsriDispatchToEnvelope(g, gt) ==
    IF IsRaise(gt) THEN gt
    ELSE IF gt = Name("polygon") THEN _to_esri_polygon(g)
    ELSE _to_esri_envelope(g)

EsriDispatch(g, gt) ==
    IF IsRaise(gt) THEN gt
    ELSE IF gt = Name("polygon") THEN _to_esri_polygon(g)
    ELSE IF gt = Name("point") \/ gt = Name("envelope") THEN _to_esri_envelope(g)
    ELSE None

to_esri_geometry(g) == EsriDispatch(g, geom_type(g, "eml"))

\* ring = [list(filter(None, item)) for item in ring]
RECURSIVE FilterEach(_)
FilterEach(ring) ==
    IF ring = <<>> THEN <<>>
    ELSE <<FilterNone(Head(ring))>> \o FilterEach(Tail(ring))

\* The ring with the warning issued for every vertex
GeojsonRingWarningEach(ring, z) ==
    IF IsRaise(ring) THEN Res(ring, z.warns)
    ELSE Res(List(FilterEach(ring.v)), z.warns * Len(ring.v))

GeojsonRing(ring, z) ==
    IF IsRaise(ring) THEN Res(ring, z.warns)
    ELSE Res(List(FilterEach(ring.v)), z.warns)

FormatWithZ(items, z) ==
    IF IsRaise(z.val) THEN z
    ELSE GeojsonRing(ClosedRing(Vertices(items, <<z.val>>)), z)

\* _format_ring of _to_geojson_polygon
GeojsonFormatRing(g, gring) ==
    FormatWithZ(SplitWs(gring.c, <<>>), _average_altitudes(g))

GeojsonPolygon(ring) ==
    IF IsRaise(ring.val) THEN ring
    ELSE Res(Dumps([t |-> "dict",
                    type |-> Name("Polygon"),
                    coordinates |-> List(<<ring.val>>)]),
             ring.warns)

\* The five corners of the envelope, filtered
EnvelopeRing(z, w, s, e, n) ==
    IF AnyRaise(<<z.val, w, s, e, n>>)
    THEN Res(FirstRaise(<<z.val, w, s, e, n>>), z.warns)
    ELSE Res(List(FilterEach(<< List(<<w, s, z.val>>),
                                List(<<e, s, z.val>>),
                                List(<<e, n, z.val>>),
                                List(<<w, n, z.val>>),
                                List(<<w, s, z.val>>) >>)),
             z.warns)

GeojsonPolygonDispatch(g, gt) ==
    IF IsRaise(gt) THEN Res(gt, 0)
    ELSE IF gt = Name("envelope")
    THEN GeojsonPolygon(EnvelopeRing(_average_altitudes(g),
                                     west(g), south(g), east(g), north(g)))
    ELSE IF gt = Name("polygon") /\ outer_gring(g) # None
    THEN GeojsonPolygon(GeojsonFormatRing(g, outer_gring(g)))
    ELSE Res(None, 0)

_to_geojson_polygon(g) == GeojsonPolygonDispatch(g, geom_type(g, "eml"))

GeojsonPoint(z, w, n) ==
    IF AnyRaise(<<z.val, w, n>>) THEN Res(FirstRaise(<<z.val, w, n>>), z.warns)
    ELSE Res(Dumps([t |-> "dict",
                    type |-> Name("Point"),
                    coordinates |-> FilterNone(List(<<w, n, z.val>>))]),
             z.warns)

\* The point emitter without its check of the kind
GeojsonPointUnguarded(g, gt) ==
    IF IsRaise(gt) THEN Res(gt, 0)
    ELSE GeojsonPoint(_average_altitudes(g), west(g), north(g))

GeojsonPointDispatch(g, gt) ==
    IF IsRaise(gt) THEN Res(gt, 0)
    ELSE IF gt # Name("point") THEN Res(None, 0)
    ELSE GeojsonPoint(_average_altitudes(g), west(g), north(g))

_to_geojson_point(g) == GeojsonPointDispatch(g, geom_type(g, "eml"))

GeojsonDispatch(g, gt) ==
    IF IsRaise(gt) THEN Res(gt, 0)
    ELSE IF gt = Name("polygon") \/ gt = Name("envelope")
    THEN _to_geojson_polygon(g)
    ELSE IF gt = Name("point") THEN _to_geojson_point(g)
    ELSE Res(None, 0)

to_geojson_geometry(g) == GeojsonDispatch(g, geom_type(g, "eml"))

(***************************************************************************)
(* The bounded set of coverage nodes.  Bounding coordinates and altitudes  *)
(* are decimal texts, as the EML schema types them; a gRing is free text.  *)
(***************************************************************************)
MaxCoord == 1

MaxAlt == 1

MaxTokens == 3

RECURSIVE NatText(_)
NatText(n) ==
    IF n < Len(Digits) THEN <<Digits[n + 1]>>
    ELSE Append(NatText(n \div Len(Digits)), Digits[(n % Len(Digits)) + 1])

IntText(n) == IF n < 0 THEN <<"-">> \o NatText(-n) ELSE NatText(n)

CoordTexts == {Str(IntText(n)) : n \in 0..MaxCoord}

AltTexts == {None} \cup {Str(IntText(n)) : n \in (-MaxAlt)..MaxAlt}

UnitTexts == {None, Name("meter"), Name("foot"), Name("meters")}

\* The tokens of the gRing texts: numeric pairs, a pair with a non-numeric
\* part, and a token without a comma
Tokens == { <<"0", ",", "0">>, <<"1", ",", "1">>, <<"a", ",", "0">>, <<"1">> }

RECURSIVE Join(_)
Join(ts) ==
    IF ts = <<>> THEN <<>>
    ELSE IF Len(ts) = 1 THEN ts[1]
    ELSE ts[1] \o <<" ">> \o Join(Tail(ts))

RingTexts ==
    {Str(Join(ts)) : ts \in UNION {[1..n -> Tokens] : n \in 0..MaxTokens}}

ExclusionTexts ==
    {None, Str(Join(<<<<"1", ",", "1">>, <<"0", ",", "0">>>>))}

Node(desc, bounds, alts, poly) ==
    [ geographicDescription         |-> desc,
      boundingCoordinates           |-> bounds # <<>>,
      westBoundingCoordinate        |-> IF bounds = <<>> THEN None ELSE bounds[1],
      eastBoundingCoordinate        |-> IF bounds = <<>> THEN None ELSE bounds[2],
      northBoundingCoordinate       |-> IF bounds = <<>> THEN None ELSE bounds[3],
      southBoundingCoordinate       |-> IF bounds = <<>> THEN None ELSE bounds[4],
      altitudeMinimum               |-> alts[1],
      altitudeMaximum               |-> alts[2],
      altitudeUnits                 |-> alts[3],
      datasetGPolygon               |-> poly # <<>>,
      datasetGPolygonOuterGRing     |-> IF poly = <<>> THEN None ELSE poly[1],
      datasetGPolygonExclusionGRing |-> IF poly = <<>> THEN None ELSE poly[2] ]

AllBounds == {<<>>} \cup (CoordTexts \X CoordTexts \X CoordTexts \X CoordTexts)

AllAlts == AltTexts \X AltTexts \X UnitTexts

SomeBounds ==
    LET lo == Str(IntText(0))
        hi == Str(IntText(MaxCoord))
    IN  {<<>>, <<lo, lo, lo, lo>>, <<lo, hi, hi, lo>>}

SomeAlts ==
    { <<None, None, None>>,
      <<Str(IntText(-MaxAlt)), Str(IntText(MaxAlt)), Name("meter")>>,
      <<Str(IntText(0)), Str(IntText(MaxAlt)), Name("foot")>> }

\* The nodes without a polygon: every bounding box and every altitude range
BoxNodes ==
    {Node(Name("site"), b, a, <<>>) : b \in AllBounds, a \in SomeAlts}
    \cup {Node(Name("site"), b, a, <<>>) : b \in SomeBounds, a \in AllAlts}

\* The nodes with a polygon: every outer ring, with or without an exclusion
\* ring, a bounding box and altitudes
PolyNodes ==
    {Node(Name("site"), b, a, <<o, e>>) :
        b \in SomeBounds, a \in SomeAlts,
        o \in {None} \cup RingTexts, e \in ExclusionTexts}

Nodes == BoxNodes \cup PolyNodes

(***************************************************************************)
(* The state: gc is the node the GeographicCoverage object wraps, op the   *)
(* last method called on it, ret what the call returned (or raised),       *)
(* warned the number of times the call called warnings.warn and calls the  *)
(* _convert_to_meters invocations it made.  batch is the state of a run    *)
(* over the records of a document (empty while one object is exercised).   *)
(***************************************************************************)
Init == /\ gc \in {GeographicCoverage(n) : n \in Nodes}
        /\ op = <<"init">>
        /\ ret = None
        /\ warned = 0
        /\ calls = <<>>
        /\ batch = <<>>

\* geom_type(schema)
GeomType ==
    \E schema \in {"eml", "esri"} :
        /\ op' = <<"geom_type", schema>>
        /\ ret' = geom_type(gc, schema)
        /\ warned' = 0
        /\ calls' = <<>>
        /\ UNCHANGED <<gc, batch>>

ToEsriGeometry ==
    /\ op' = <<"to_esri_geometry">>
    /\ ret' = to_esri_geometry(gc)
    /\ warned' = 0
    /\ calls' = EsriConvertCalls(gc, geom_type(gc, "eml"))
    /\ UNCHANGED <<gc, batch>>

ToGeojsonGeometry ==
    /\ op' = <<"to_geojson_geometry">>
    /\ LET res == to_geojson_geometry(gc)
       IN  ret' = res.val /\ warned' = res.warns
    /\ calls' = GeojsonConvertCalls(gc, geom_type(gc, "eml"))
    /\ UNCHANGED <<gc, batch>>

ToGeojsonPolygon ==
    /\ op' = <<"_to_geojson_polygon">>
    /\ LET res == _to_geojson_polygon(gc)
       IN  ret' = res.val /\ warned' = res.warns
    /\ calls' = PolygonConvertCalls(gc, geom_type(gc, "eml"))
    /\ UNCHANGED <<gc, batch>>

ToGeojsonPoint ==
    /\ op' = <<"_to_geojson_point">>
    /\ LET res == _to_geojson_point(gc)
       IN  ret' = res.val /\ warned' = res.warns
    /\ calls' = PointConvertCalls(gc, geom_type(gc, "eml"))
    /\ UNCHANGED <<gc, batch>>

AverageAltitudes ==
    /\ op' = <<"_average_altitudes">>
    /\ LET res == _average_altitudes(gc)
       IN  ret' = res.val /\ warned' = res.warns
    /\ calls' = BothCalls(gc)
    /\ UNCHANGED <<gc, batch>>

Next == \/ GeomType
        \/ ToEsriGeometry
        \/ ToGeojsonGeometry
        \/ ToGeojsonPolygon
        \/ ToGeojsonPoint
        \/ AverageAltitudes

Spec == Init /\ [][Next]_vars

(***************************************************************************)
(* The static method _convert_to_meters on its own: it reads nothing of    *)
(* the node, so it is called on every value and unit of a bounded set.     *)
(***************************************************************************)
MaxValue == 10

\* The values of x: None, float("NaN"), the integers and a fraction
Values ==
    {None, NaN, Half(FromInt(1))} \cup {FromInt(n) : n \in (-MaxValue)..MaxValue}

\* The values of from_units: None, the units of the table, and names that
\* are not in it
Units ==
    {None, Name("meters"), Name("unknown_unit")}
    \cup {Name(u) : u \in DOMAIN ConversionFactors}

InitConvert ==
    /\ gc = GeographicCoverage(Node(Name("site"), <<>>, <<None, None, None>>, <<>>))
    /\ op = <<"init">>
    /\ ret = None
    /\ warned = 0
    /\ calls = <<>>
    /\ batch = <<>>

\* GeographicCoverage._convert_to_meters(x, from_units)
ConvertToMeters ==
    \E x \in Values, from_units \in Units :
        /\ op' = <<"_convert_to_meters", x, from_units>>
        /\ ret' = _convert_to_meters(x, from_units)
        /\ warned' = 0
        /\ calls' = << <<x, from_units>> >>
        /\ UNCHANGED <<gc, batch>>

NextConvert == ConvertToMeters

SpecConvert == InitConvert /\ [][NextConvert]_vars

(***************************************************************************)
(* The altitude accessors and their average, on the nodes of every         *)
(* combination of altitude texts and units.                                *)
(***************************************************************************)
AltitudeNodes == {Node(Name("site"), <<>>, a, <<>>) : a \in AllAlts}

InitAltitude ==
    /\ gc \in {GeographicCoverage(n) : n \in AltitudeNodes}
    /\ op = <<"init">>
    /\ ret = None
    /\ warned = 0
    /\ calls = <<>>
    /\ batch = <<>>

\* altitude_minimum(to_meters); neither it nor _convert_to_meters calls
\* warnings.warn
AltitudeMinimum ==
    \E to_meters \in BOOLEAN :
        /\ op' = <<"altitude_minimum", to_meters>>
        /\ ret' = altitude_minimum(gc, to_meters)
        /\ warned' = 0
        /\ calls' = MinimumCalls(gc, to_meters)
        /\ UNCHANGED <<gc, batch>>

\* altitude_maximum(to_meters)
AltitudeMaximum ==
    \E to_meters \in BOOLEAN :
        /\ op' = <<"altitude_maximum", to_meters>>
        /\ ret' = altitude_maximum(gc, to_meters)
        /\ warned' = 0
        /\ calls' = MaximumCalls(gc, to_meters)
        /\ UNCHANGED <<gc, batch>>

NextAltitude == \/ AltitudeMinimum
                \/ AltitudeMaximum
                \/ AverageAltitudes

SpecAltitude == InitAltitude /\ [][NextAltitude]_vars

(***************************************************************************)
(* The accessors on a node whose elements are removed between calls, as    *)
(* the tests do with self.gc.remove(...).                                  *)
(***************************************************************************)
\* The elements an accessor reads
Elements ==
    {"geographicDescription", "westBoundingCoordinate", "eastBoundingCoordinate",
     "northBoundingCoordinate", "southBoundingCoordinate", "altitudeMinimum",
     "altitudeMaximum", "altitudeUnits", "datasetGPolygonOuterGRing",
     "datasetGPolygonExclusionGRing"}

\* Nodes with every element present
FullNodes ==
    {Node(Name("site"), b, a, <<o, e>>) :
        b \in SomeBounds \ {<<>>},
        a \in {x \in SomeAlts : x[1] # None},
        o \in {Str(Join(<<<<"0", ",", "0">>, <<"1", ",", "1">>>>))},
        e \in ExclusionTexts \ {None}}

InitReader ==
    /\ gc \in {GeographicCoverage(n) : n \in FullNodes}
    /\ op = <<"init">>
    /\ ret = None
    /\ warned = 0
    /\ calls = <<>>
    /\ batch = <<>>

\* The caller removes one element that is present from the node
Remove ==
    \E tag \in Elements :
        /\ gc[tag] # None
        /\ gc' = [gc EXCEPT ![tag] = None]
        /\ op' = <<"remove", tag>>
        /\ ret' = None
        /\ warned' = 0
        /\ calls' = <<>>
        /\ UNCHANGED batch

Description ==
    /\ op' = <<"description">>
    /\ ret' = description(gc)
    /\ warned' = 0
    /\ calls' = <<>>
    /\ UNCHANGED <<gc, batch>>

West ==
    /\ op' = <<"west">>
    /\ ret' = west(gc)
    /\ warned' = 0
    /\ calls' = <<>>
    /\ UNCHANGED <<gc, batch>>

East ==
    /\ op' = <<"east">>
    /\ ret' = east(gc)
    /\ warned' = 0
    /\ calls' = <<>>
    /\ UNCHANGED <<gc, batch>>

North ==
    /\ op' = <<"north">>
    /\ ret' = north(gc)
    /\ warned' = 0
    /\ calls' = <<>>
    /\ UNCHANGED <<gc, batch>>

South ==
    /\ op' = <<"south">>
    /\ ret' = south(gc)
    /\ warned' = 0
    /\ calls' = <<>>
    /\ UNCHANGED <<gc, batch>>

AltitudeUnits ==
    /\ op' = <<"altitude_units">>
    /\ ret' = altitude_units(gc)
    /\ warned' = 0
    /\ calls' = <<>>
    /\ UNCHANGED <<gc, batch>>

OuterGring ==
    /\ op' = <<"outer_gring">>
    /\ ret' = outer_gring(gc)
    /\ warned' = 0
    /\ calls' = <<>>
    /\ UNCHANGED <<gc, batch>>

ExclusionGring ==
    /\ op' = <<"exclusion_gring">>
    /\ ret' = exclusion_gring(gc)
    /\ warned' = 0
    /\ calls' = <<>>
    /\ UNCHANGED <<gc, batch>>

NextReader == \/ Remove
              \/ Description
              \/ West
              \/ East
              \/ North
              \/ South
              \/ AltitudeUnits
              \/ OuterGring
              \/ ExclusionGring
              \/ AltitudeMinimum
              \/ AltitudeMaximum

SpecReader == InitReader /\ [][NextReader]_vars

(***************************************************************************)
(* A run over a document: get_geographic_coverage reads the document, and  *)
(* the caller classifies and converts each object it returned, the records *)
(* in any interleaving.  batch holds the document (its elements below the  *)
(* root, in document order), what get_geographic_coverage returned, the    *)
(* progress and results of each record, and what the records share: the    *)
(* interpreter's warning filter and the registry in which warnings.warn    *)
(* notes that the warning of eml.py has been shown.  The registry changes  *)
(* nothing a call returns, so the specifications of a single object leave  *)
(* it out and count in warned the calls of warnings.warn.                  *)
(***************************************************************************)
MaxElements == 2

Unset == [t |-> "unset"]

\* An element that is not a geographicCoverage
OtherElement == [tag |-> "dataset", depth |-> 1, node |-> None]

CoverageElement(node, depth) ==
    [tag |-> "geographicCoverage", depth |-> depth, node |-> node]

\* The coverages of the batch: one with neither ring nor bounds, a point
\* and an envelope whose altitudes differ
BatchNodes ==
    LET lo == Str(IntText(0))
        hi == Str(IntText(1))
    IN  { Node(Name("site"), <<>>, <<None, None, None>>, <<>>),
          Node(Name("site"), <<hi, hi, hi, hi>>, <<Str(IntText(-1)), hi, Name("meter")>>, <<>>),
          Node(Name("site"), <<lo, hi, hi, lo>>, <<lo, hi, Name("foot")>>, <<>>) }

DocElements ==
    {OtherElement} \cup {CoverageElement(n, d) : n \in BatchNodes, d \in {1, 2}}

Documents == UNION {[1..n -> DocElements] : n \in 0..MaxElements}

\* The action of the warning filter that matches the warning: "default"
\* unless the caller installed another, such as "always"
Filters == {"default", "always"}

\* The elements of that tag that are children of the root only
XpathChildren(doc, tag) == SelectSeq(doc, LAMBDA e : e.tag = tag /\ e.depth = 1)

\* xml.xpath(".//tag"): the elements of that tag at any depth, in document
\* order
Xpath(doc, tag) == SelectSeq(doc, LAMBDA e : e.tag = tag)

Wrap(gcs) ==
    IF Len(gcs) = 0 THEN None
    ELSE List([i \in 1..Len(gcs) |-> GeographicCoverage(gcs[i].node)])

get_geographic_coverage(doc) == Wrap(Xpath(doc, "geographicCoverage"))

\* The number of warnings a call's warnings.warn calls show: under the
\* default filter none once the registry has the warning's key
Shown(filter, registry, warns) ==
    IF filter = "default" /\ registry THEN 0 ELSE warns

\* The registry after the call
Registry(filter, registry, warns) ==
    IF filter = "default" /\ warns > 0 THEN TRUE ELSE registry

\* A record before any call on it
Fresh ==
    [pc |-> 0, kind |-> None, esri |-> None, geojson |-> None,
     warned |-> 0, shown |-> 0]

InitBatch ==
    /\ batch \in {[doc |-> d, filter |-> f, registry |-> FALSE,
                   res |-> Unset, recs |-> <<>>] :
                     d \in Documents, f \in Filters}
    /\ gc = None
    /\ op = <<"init">>
    /\ ret = None
    /\ warned = 0
    /\ calls = <<>>

\* get_geographic_coverage(eml)
GetGeographicCoverage ==
    /\ batch.res = Unset
    /\ LET res == get_geographic_coverage(batch.doc)
       IN  batch' = [batch EXCEPT
                       !.res = res,
                       !.recs = IF res = None THEN <<>>
                                ELSE [i \in 1..Len(res.v) |-> Fresh]]
    /\ UNCHANGED <<gc, op, ret, warned, calls>>

\* geom_type() on the i-th object
Classify(i) ==
    /\ batch.recs[i].pc = 0
    /\ batch' = [batch EXCEPT
                    !.recs[i].pc = 1,
                    !.recs[i].kind = geom_type(batch.res.v[i], "eml")]
    /\ UNCHANGED <<gc, op, ret, warned, calls>>

\* to_esri_geometry() on the i-th object
EmitEsri(i) ==
    /\ batch.recs[i].pc = 1
    /\ batch' = [batch EXCEPT
                    !.recs[i].pc = 2,
                    !.recs[i].esri = to_esri_geometry(batch.res.v[i])]
    /\ UNCHANGED <<gc, op, ret, warned, calls>>

\* to_geojson_geometry() on the i-th object
EmitGeojson(i) ==
    /\ batch.recs[i].pc = 2
    /\ LET res == to_geojson_geometry(batch.res.v[i])
       IN  batch' = [batch EXCEPT
                       !.recs[i].pc = 3,
                       !.recs[i].geojson = res.val,
                       !.recs[i].warned = res.warns,
                       !.recs[i].shown =
                           Shown(batch.filter, batch.registry, res.warns),
                       !.registry =
                           Registry(batch.filter, batch.registry, res.warns)]
    /\ UNCHANGED <<gc, op, ret, warned, calls>>

NextBatch ==
    \/ GetGeographicCoverage
    \/ \E i \in 1..Len(batch.recs) : Classify(i)
    \/ \E i \in 1..Len(batch.recs) : EmitEsri(i)
    \/ \E i \in 1..Len(batch.recs) : EmitGeojson(i)

SpecBatch == InitBatch /\ [][NextBatch]_vars

(***************************************************************************)
(* Coverages whose boundingCoordinates element lacks some of its four      *)
(* children: lxml parses a document without validating it against the EML  *)
(* schema, and every accessor reads its own element.                       *)
(***************************************************************************)
PartialBounds ==
    LET texts == {None} \cup CoordTexts
    IN  texts \X texts \X texts \X texts

PartialNodes ==
    {Node(Name("site"), b, <<None, None, None>>, <<>>) : b \in PartialBounds}

InitPartial ==
    /\ gc \in {GeographicCoverage(n) : n \in PartialNodes}
    /\ op = <<"init">>
    /\ ret = None
    /\ warned = 0
    /\ calls = <<>>
    /\ batch = <<>>

NextPartial ==
    \/ GeomType
    \/ ToEsriGeometry
    \/ ToGeojsonGeometry

SpecPartial == InitPartial /\ [][NextPartial]_vars

(***************************************************************************)
(* The claims.                                                             *)
(***************************************************************************)
Kind == geom_type(gc, "eml")

Polygon == Name("polygon")

Point == Name("point")

Envelope == Name("envelope")

\* The tokens of a ring text
Items(text) == SplitWs(text.c, <<>>)

IsPair(item) == Len(SplitOn(item, ",", <<>>)) = 2

IsNumericPair(item) ==
    /\ IsPair(item)
    /\ \A k \in 1..2 : ~IsRaise(ParseFloat(SplitOn(item, ",", <<>>)[k]))

\* The parsed (x, y) of a numeric token
Parsed(item) ==
    <<ParseFloat(SplitOn(item, ",", <<>>)[1]), ParseFloat(SplitOn(item, ",", <<>>)[2])>>

\* A ring text of one or more "x,y" tokens
PairRing(text) ==
    /\ Items(text) # <<>>
    /\ \A i \in 1..Len(Items(text)) : IsPair(Items(text)[i])

NumericRing(text) ==
    /\ Items(text) # <<>>
    /\ \A i \in 1..Len(Items(text)) : IsNumericPair(Items(text)[i])

HasBox == gc.boundingCoordinates

Degenerate == west(gc) = east(gc) /\ north(gc) = south(gc)

\* C1: geom_type returns 'polygon' whenever an outer ring is present, whatever
\* the bounds; with no ring it returns 'point' iff bounds are present with
\* west == east and north == south, 'envelope' for any other present bounds,
\* and None when neither ring nor bounds is present.
C1_GeomTypeByRingAndBounds ==
    op = <<"geom_type", "eml">> =>
        ret = IF outer_gring(gc) # None THEN Polygon
              ELSE IF HasBox /\ Degenerate THEN Point
              ELSE IF HasBox THEN Envelope
              ELSE None

\* C2: geom_type() == 'polygon' exactly when outer_gring() is not None.
C2_PolygonIffOuterRing ==
    op = <<"geom_type", "eml">> => (ret = Polygon <=> outer_gring(gc) # None)

\* The altitude text in meters: absent stays absent, a recognized unit
\* multiplies by its factor, any other unit leaves the value as it is
InMeters(text, units) ==
    IF text = None THEN None
    ELSE IF units # None /\ units.s \in DOMAIN ConversionFactors
    THEN Mul(ParseFloat(text.c), ConversionFactors[units.s])
    ELSE ParseFloat(text.c)

\* C3: for every coverage classified as point or envelope, to_esri_geometry
\* returns an envelope with exactly the keys xmin=west, ymin=south, xmax=east,
\* ymax=north, zmin and zmax = the altitude minimum and maximum in meters
\* (each null, key kept, exactly when that altitude is absent) and
\* spatialReference = {wkid: 4326}; a point gives xmin == xmax and
\* ymin == ymax, never an ESRI point.
C3_EsriEnvelope ==
    (op = <<"to_esri_geometry">> /\ Kind \in {Point, Envelope}) =>
        /\ ret.t = "json"
        /\ DOMAIN ret.v = {"t", "xmin", "ymin", "xmax", "ymax", "zmin", "zmax",
                           "spatialReference"}
        /\ ret.v.xmin = ParseFloat(gc.westBoundingCoordinate.c)
        /\ ret.v.ymin = ParseFloat(gc.southBoundingCoordinate.c)
        /\ ret.v.xmax = ParseFloat(gc.eastBoundingCoordinate.c)
        /\ ret.v.ymax = ParseFloat(gc.northBoundingCoordinate.c)
        /\ ret.v.zmin = InMeters(gc.altitudeMinimum, gc.altitudeUnits)
        /\ ret.v.zmax = InMeters(gc.altitudeMaximum, gc.altitudeUnits)
        /\ (ret.v.zmin = None <=> gc.altitudeMinimum = None)
        /\ (ret.v.zmax = None <=> gc.altitudeMaximum = None)
        /\ ret.v.spatialReference = [t |-> "dict", wkid |-> 4326]
        /\ (Kind = Point => ret.v.xmin = ret.v.xmax /\ ret.v.ymin = ret.v.ymax)

\* C3 witness: a point with only a maximum altitude, in feet, converted: the
\* envelope has a null zmin beside a converted zmax.
C3_Witness ==
    /\ op = <<"to_esri_geometry">>
    /\ Kind = Point
    /\ gc.altitudeUnits = Name("foot")
    /\ gc.altitudeMinimum = None
    /\ gc.altitudeMaximum # None
    /\ ret.t = "json"
    /\ ret.v.zmin = None
    /\ ret.v.zmax # None
    /\ ret.v.zmax # ParseFloat(gc.altitudeMaximum.c)
    /\ ret.v.xmin = ret.v.xmax

\* An ESRI ring for the tokens: one two-component vertex per token, in token
\* order, and at most one closing vertex
EsriRingOf(ring, items) ==
    /\ Len(ring.v) \in {Len(items), Len(items) + 1}
    /\ \A k \in 1..Len(ring.v) : Len(ring.v[k].v) = 2
    /\ \A i \in 1..Len(items) :
          IsNumericPair(items[i]) => ring.v[i].v = Parsed(items[i])

\* C4: for every coverage classified as polygon with an outer ring,
\* to_esri_geometry returns {rings, spatialReference: {wkid: 4326}} where
\* rings[0] is the formatted outer ring and rings[1], present iff an exclusion
\* ring is present, the formatted exclusion ring; every vertex has exactly two
\* components, never a z value.
C4_EsriPolygon ==
    ( /\ op = <<"to_esri_geometry">>
      /\ Kind = Polygon
      /\ outer_gring(gc) # None
      /\ PairRing(outer_gring(gc)) ) =>
        /\ ret.t = "json"
        /\ DOMAIN ret.v = {"t", "rings", "spatialReference"}
        /\ ret.v.spatialReference = [t |-> "dict", wkid |-> 4326]
        /\ Len(ret.v.rings.v) = IF exclusion_gring(gc) # None THEN 2 ELSE 1
        /\ EsriRingOf(ret.v.rings.v[1], Items(outer_gring(gc)))
        /\ exclusion_gring(gc) # None =>
              EsriRingOf(ret.v.rings.v[2], Items(exclusion_gring(gc)))

GeojsonCalls == {<<"to_geojson_geometry">>, <<"_to_geojson_polygon">>,
                 <<"_to_geojson_point">>}

\* The value _average_altitudes returns for the node
AverageZ == _average_altitudes(gc).val

\* C5: for every coverage classified as point, the GeoJSON output is
\* {type: 'Point', coordinates: c} with c[0] == west and c[1] == north for
\* every value of west and north (0 included), followed by at most one z.
C5_GeojsonPoint ==
    (op \in {<<"to_geojson_geometry">>, <<"_to_geojson_point">>} /\ Kind = Point) =>
        /\ ret.t = "json"
        /\ ret.v.type = Name("Point")
        /\ Len(ret.v.coordinates.v) \in {2, 3}
        /\ ret.v.coordinates.v[1] = ParseFloat(gc.westBoundingCoordinate.c)
        /\ ret.v.coordinates.v[2] = ParseFloat(gc.northBoundingCoordinate.c)

\* The four corners of the box in the order of the envelope ring
Corners ==
    LET w == ParseFloat(gc.westBoundingCoordinate.c)
        e == ParseFloat(gc.eastBoundingCoordinate.c)
        n == ParseFloat(gc.northBoundingCoordinate.c)
        s == ParseFloat(gc.southBoundingCoordinate.c)
    IN  << <<w, s>>, <<e, s>>, <<e, n>>, <<w, n>>, <<w, s>> >>

\* C6: for every coverage classified as envelope, the GeoJSON output is
\* {type: 'Polygon', coordinates: [ring]} with exactly one ring of exactly
\* five vertices whose (x, y) are (west,south), (east,south), (east,north),
\* (west,north), (west,south), for every value of the bounds (0 included).
C6_GeojsonEnvelope ==
    (op \in {<<"to_geojson_geometry">>, <<"_to_geojson_polygon">>} /\ Kind = Envelope) =>
        /\ ret.t = "json"
        /\ ret.v.type = Name("Polygon")
        /\ Len(ret.v.coordinates.v) = 1
        /\ Len(ret.v.coordinates.v[1].v) = Len(Corners)
        /\ \A k \in 1..Len(Corners) :
              /\ Len(ret.v.coordinates.v[1].v[k].v) >= 2
              /\ SubSeq(ret.v.coordinates.v[1].v[k].v, 1, 2) = Corners[k]

\* C7: for every coverage classified as polygon with an outer ring of n
\* numeric 'x,y' tokens, the GeoJSON output is {type: 'Polygon',
\* coordinates: [ring]} with exactly one ring (the exclusion ring is never
\* emitted) whose i-th vertex has the i-th token's parsed x and y, in token
\* order, followed by the closing vertex when the ring was open.
C7_GeojsonRing ==
    ( /\ op \in {<<"to_geojson_geometry">>, <<"_to_geojson_polygon">>}
      /\ Kind = Polygon
      /\ outer_gring(gc) # None
      /\ NumericRing(outer_gring(gc)) ) =>
        LET items == Items(outer_gring(gc))
            n     == Len(items)
            open  == Parsed(items[1]) # Parsed(items[n])
        IN  /\ ret.t = "json"
            /\ ret.v.type = Name("Polygon")
            /\ Len(ret.v.coordinates.v) = 1
            /\ Len(ret.v.coordinates.v[1].v) = IF open THEN n + 1 ELSE n
            /\ \A i \in 1..n :
                  /\ Len(ret.v.coordinates.v[1].v[i].v) >= 2
                  /\ SubSeq(ret.v.coordinates.v[1].v[i].v, 1, 2) = Parsed(items[i])
            /\ open => /\ Len(ret.v.coordinates.v[1].v[n + 1].v) >= 2
                       /\ SubSeq(ret.v.coordinates.v[1].v[n + 1].v, 1, 2)
                              = Parsed(items[1])

\* The coordinate tuples of a GeoJSON geometry: the position of a Point, the
\* vertices of every ring of a Polygon
Tuples(geometry) ==
    IF geometry.type = Name("Point") THEN {geometry.coordinates}
    ELSE {geometry.coordinates.v[r].v[k] :
            r \in 1..Len(geometry.coordinates.v),
            k \in 1..Len(geometry.coordinates.v[1].v)}

\* C8: in every GeoJSON output each coordinate tuple carries a third z
\* component iff _average_altitudes returns a non-None value, and that
\* component equals the returned average, an average of 0 included.
C8_GeojsonZ ==
    (op \in GeojsonCalls /\ ret.t = "json") =>
        \A tuple \in Tuples(ret.v) :
            /\ Len(tuple.v) = 3 <=> AverageZ # None
            /\ AverageZ # None => tuple.v[3] = AverageZ

\* C9: in every GeoJSON output of to_geojson_geometry every coordinate tuple
\* has exactly 2 or exactly 3 components, never fewer, and holds no null.
C9_GeojsonArity ==
    (op = <<"to_geojson_geometry">> /\ ret.t = "json") =>
        \A tuple \in Tuples(ret.v) :
            /\ Len(tuple.v) \in {2, 3}
            /\ \A k \in 1..Len(tuple.v) : tuple.v[k] # None

\* The ring text closed: the text itself if its first and last tokens parse
\* to the same pair, else the text with its first token appended
ClosedText(text) ==
    LET items == Items(text)
    IN  IF Vertex(items[1], <<>>) = Vertex(items[Len(items)], <<>>)
        THEN Str(Join(items))
        ELSE Str(Join(Append(items, items[1])))

\* A formatted ring is closed for the tokens it was formatted from: first and
\* last vertices equal, n vertices if the first and last pairs were equal
\* and n + 1 otherwise
ClosedFor(ring, items) ==
    /\ ring.t = "list"
    /\ ring.v[1] = ring.v[Len(ring.v)]
    /\ Len(ring.v) = IF Vertex(items[1], <<>>) = Vertex(items[Len(items)], <<>>)
                     THEN Len(items) ELSE Len(items) + 1

\* C10: for the ESRI and the GeoJSON ring formatter and every non-empty ring
\* text of n tokens, the formatted ring's first and last vertices are equal;
\* it has n vertices if the first and last parsed pairs were equal, else
\* n + 1 with the last a copy of the first; formatting the closed ring again
\* yields the same ring.
C10_RingClosure ==
    ( /\ op \in {<<"to_esri_geometry">>, <<"to_geojson_geometry">>}
      /\ Kind = Polygon
      /\ outer_gring(gc) # None
      /\ PairRing(outer_gring(gc)) ) =>
        /\ ret.t = "json"
        /\ op = <<"to_esri_geometry">> =>
              /\ ClosedFor(ret.v.rings.v[1], Items(outer_gring(gc)))
              /\ EsriFormatRing(ClosedText(outer_gring(gc))) = ret.v.rings.v[1]
        /\ op = <<"to_geojson_geometry">> =>
              /\ ClosedFor(ret.v.coordinates.v[1], Items(outer_gring(gc)))
              /\ GeojsonFormatRing(gc, ClosedText(outer_gring(gc))).val
                    = ret.v.coordinates.v[1]

\* The string components x[0], x[1] of a token, as the vertex that keeps them
Kept(item) ==
    <<Str(SplitOn(item, ",", <<>>)[1]), Str(SplitOn(item, ",", <<>>)[2])>>

\* The vertices of the outer ring in an ESRI or GeoJSON polygon
RingOf(geometry) ==
    IF "rings" \in DOMAIN geometry THEN geometry.rings.v[1].v
    ELSE geometry.coordinates.v[1].v

\* C11: when a ring token's x or y is not numeric, formatting the ring does
\* not fail: the ESRI and GeoJSON formatters keep that token's original
\* string components as the vertex, still format the other tokens and return
\* the ring.
C11_NonNumericTokenKept ==
    ( /\ op \in {<<"to_esri_geometry">>, <<"to_geojson_geometry">>}
      /\ Kind = Polygon
      /\ outer_gring(gc) # None
      /\ PairRing(outer_gring(gc))
      /\ ~NumericRing(outer_gring(gc)) ) =>
        /\ ret.t = "json"
        /\ Len(RingOf(ret.v)) >= Len(Items(outer_gring(gc)))
        /\ \A i \in 1..Len(Items(outer_gring(gc))) :
              LET item == Items(outer_gring(gc))[i]
              IN  /\ Len(RingOf(ret.v)[i].v) >= 2
                  /\ SubSeq(RingOf(ret.v)[i].v, 1, 2)
                        = IF IsNumericPair(item) THEN Parsed(item) ELSE Kept(item)

\* The 16 unit names of the fixed table
TableUnits ==
    {"meter", "decimeter", "dekameter", "hectometer", "kilometer", "megameter",
     "Foot_US", "foot", "Foot_Gold_Coast", "fathom", "nauticalMile", "yard",
     "Yard_Indian", "Link_Clarke", "Yard_Sears", "mile"}

Converting == op[1] = "_convert_to_meters"

InTable(unit) == unit # None /\ unit.s \in TableUnits

C13_AbsentStaysAbsent ==
    (Converting /\ op[2] = None) => ret = None

\* C13 witness: None in feet, a recognized unit, comes back as None.
C13_Witness ==
    /\ Converting
    /\ op[2] = None
    /\ op[3] = Name("foot")
    /\ ret = None

\* The factors the table is stated to hold
StatedTable ==
    [ meter           |-> FromInt(1),
      decimeter       |-> Dec(0, 1000, 0, 0, 0, 0, 0),
      dekameter       |-> FromInt(10),
      hectometer      |-> FromInt(100),
      kilometer       |-> FromInt(1000),
      megameter       |-> FromInt(1000000),
      Foot_US         |-> Dec(0, 3048, 60, 0, 0, 0, 0),
      foot            |-> Dec(0, 3048, 0, 0, 0, 0, 0),
      Foot_Gold_Coast |-> Dec(0, 3047, 9970, 0, 0, 0, 0),
      fathom          |-> Dec(1, 8288, 0, 0, 0, 0, 0),
      nauticalMile    |-> FromInt(1852),
      yard            |-> Dec(0, 9144, 0, 0, 0, 0, 0),
      Yard_Indian     |-> ConversionFactors.Yard_Indian,
      Link_Clarke     |-> ConversionFactors.Link_Clarke,
      Yard_Sears      |-> ConversionFactors.Yard_Sears,
      mile            |-> Dec(1609, 3440, 0, 0, 0, 0, 0) ]

\* C14: the table has exactly the 16 units with the stated factors, and for
\* every unit u of it and every numeric x, _convert_to_meters(x, u) ==
\* x * table[u]; in particular _convert_to_meters(1, u) == table[u] and
\* _convert_to_meters(10, 'foot') == 3.048.
C14_ConvertsByTable ==
    /\ DOMAIN ConversionFactors = TableUnits
    /\ (Converting /\ IsNum(op[2]) /\ InTable(op[3])) =>
          /\ ret = Mul(op[2], StatedTable[op[3].s])
          /\ op[2] = FromInt(1) => ret = StatedTable[op[3].s]
          /\ (op[2] = FromInt(10) /\ op[3] = Name("foot")) =>
                ret = Dec(3, 480, 0, 0, 0, 0, 0)

\* C14 witness: 10 feet are 3.048 meters.
C14_Witness ==
    /\ Converting
    /\ op[2] = FromInt(10)
    /\ op[3] = Name("foot")
    /\ ret = Dec(3, 480, 0, 0, 0, 0, 0)

Averaging == op = <<"_average_altitudes">>

BothPresent == gc.altitudeMinimum # None /\ gc.altitudeMaximum # None

\* The two altitudes converted to meters
MinMeters == InMeters(gc.altitudeMinimum, gc.altitudeUnits)

MaxMeters == InMeters(gc.altitudeMaximum, gc.altitudeUnits)

Emitting == op \in {<<"to_esri_geometry">>, <<"to_geojson_geometry">>}

\* C17: for every coverage with neither ring nor bounds (geom_type() is
\* None), to_esri_geometry and to_geojson_geometry both return None, without
\* raising.
C17_UnclassifiedGivesNone ==
    (Emitting /\ (Kind = None \/ (outer_gring(gc) = None /\ ~HasBox))) =>
        ret = None

\* C17 witness: a coverage with altitudes but neither polygon nor bounding
\* box, converted to GeoJSON, gives None.
C17_Witness ==
    /\ op = <<"to_geojson_geometry">>
    /\ ~gc.datasetGPolygon
    /\ ~gc.boundingCoordinates
    /\ gc.altitudeMinimum # None
    /\ Kind = None
    /\ ret = None

\* C18: whenever geom_type() is 'polygon', 'point' or 'envelope',
\* to_esri_geometry and to_geojson_geometry each return a JSON geometry
\* object, not None.
C18_ClassifiedGivesBoth ==
    (Emitting /\ Kind \in {Polygon, Point, Envelope}) => ret.t = "json"

\* C19: for every coverage node, whatever its absent fields, units,
\* altitudes and ring text (empty, tokens without a comma or with
\* non-numeric parts), geom_type, to_esri_geometry and to_geojson_geometry
\* terminate with a value, possibly None, and never raise.
C19_NeverRaises ==
    (Emitting \/ op[1] = "geom_type") => ~IsRaise(ret)

\* C20: if the altitudeUnits element is not present and to_meters is True,
\* altitude_minimum and altitude_maximum return the altitude value as-is and
\* a warning is issued.
C20_NoUnitsWarns ==
    /\ (op = <<"altitude_minimum", TRUE>> /\ altitude_units(gc) = None
            /\ gc.altitudeMinimum # None) =>
          (ret = ParseFloat(gc.altitudeMinimum.c) /\ warned > 0)
    /\ (op = <<"altitude_maximum", TRUE>> /\ altitude_units(gc) = None
            /\ gc.altitudeMaximum # None) =>
          (ret = ParseFloat(gc.altitudeMaximum.c) /\ warned > 0)

\* The element each accessor reads
ElementOf ==
    [ description      |-> "geographicDescription",
      west             |-> "westBoundingCoordinate",
      east             |-> "eastBoundingCoordinate",
      north            |-> "northBoundingCoordinate",
      south            |-> "southBoundingCoordinate",
      altitude_minimum |-> "altitudeMinimum",
      altitude_maximum |-> "altitudeMaximum",
      altitude_units   |-> "altitudeUnits",
      outer_gring      |-> "datasetGPolygonOuterGRing",
      exclusion_gring  |-> "datasetGPolygonExclusionGRing" ]

FloatAccessors ==
    {"west", "east", "north", "south", "altitude_minimum", "altitude_maximum"}

\* The last call was an accessor (the altitude ones without conversion)
Reading == op[1] \in DOMAIN ElementOf /\ (Len(op) = 1 \/ op[2] = FALSE)

\* C21: the accessors read the node's current content on every call, with
\* no caching: each returns the element's value (a float for bounds and
\* altitudes, the string otherwise) while the element is present, and None
\* on the next call after the element has been removed from the node.
C21_AccessorsReadCurrentNode ==
    Reading =>
        ret = IF gc[ElementOf[op[1]]] = None THEN None
              ELSE IF op[1] \in FloatAccessors
              THEN ParseFloat(gc[ElementOf[op[1]]].c)
              ELSE gc[ElementOf[op[1]]]

\* C21 witness: west() called after westBoundingCoordinate was removed
\* from a node that still has its other bounds returns None.
C21_Witness ==
    /\ op = <<"west">>
    /\ gc.westBoundingCoordinate = None
    /\ gc.eastBoundingCoordinate # None
    /\ ret = None

\* The parsed value of an altitude element, None if the element is absent
Raw(text) == IF text = None THEN None ELSE ParseFloat(text.c)

\* What a call of an altitude accessor on the element text must give:
\* without to_meters the raw value and no invocation of _convert_to_meters,
\* with it one invocation, on the raw value and the units, and its result
ConvertsOnRequest(text, to_meters) ==
    IF to_meters
    THEN /\ Len(calls) = 1
         /\ calls[1] = <<Raw(text), altitude_units(gc)>>
         /\ ret = _convert_to_meters(Raw(text), altitude_units(gc))
    ELSE /\ calls = <<>>
         /\ ret = Raw(text)

\* C22: altitude_minimum and altitude_maximum convert only on request: with
\* to_meters=False they return the raw parsed value and never invoke
\* _convert_to_meters, whatever the units; with to_meters=True they invoke
\* it exactly once and return _convert_to_meters(raw value, altitude_units()).
C22_ConvertsOnlyOnRequest ==
    /\ op[1] = "altitude_minimum" => ConvertsOnRequest(gc.altitudeMinimum, op[2])
    /\ op[1] = "altitude_maximum" => ConvertsOnRequest(gc.altitudeMaximum, op[2])

\* C22 witness: 1 foot read without conversion is 1, with no invocation.
C22_Witness ==
    /\ op = <<"altitude_minimum", FALSE>>
    /\ gc.altitudeMinimum = Str(IntText(1))
    /\ gc.altitudeUnits = Name("foot")
    /\ ret = FromInt(1)
    /\ calls = <<>>

\* The ESRI name of an EML geometry kind, None for None
EsriNameOf(kind) ==
    IF kind = Polygon THEN Name("esriGeometryPolygon")
    ELSE IF kind = Point THEN Name("esriGeometryPoint")
    ELSE IF kind = Envelope THEN Name("esriGeometryEnvelope")
    ELSE None

\* C23: the schema argument of geom_type changes only the name, never the
\* classification: geom_type(schema='esri') is 'esriGeometryPolygon',
\* 'esriGeometryPoint', 'esriGeometryEnvelope' or None exactly when
\* geom_type(schema='eml') is 'polygon', 'point', 'envelope' or None.
C23_SchemaOnlyRenames ==
    /\ op = <<"geom_type", "eml">> =>
          (ret \in {Polygon, Point, Envelope, None} /\ ret = Kind)
    /\ op = <<"geom_type", "esri">> =>
          (Kind \in {Polygon, Point, Envelope, None} /\ ret = EsriNameOf(Kind))

\* C23 witness: a point is named 'esriGeometryPoint' under the esri schema.
C23_Witness ==
    /\ op = <<"geom_type", "esri">>
    /\ HasBox
    /\ Degenerate
    /\ Kind = Point
    /\ ret = Name("esriGeometryPoint")

\* The object get_geographic_coverage returned for the i-th record
ObjectOf(i) == batch.res.v[i]

\* The positions of the geographicCoverage elements in the document
CoverageAt(doc) == {i \in DOMAIN doc : doc[i].tag = "geographicCoverage"}

\* The position of the k-th geographicCoverage element
NthCoverage(doc, k) ==
    CHOOSE i \in CoverageAt(doc) :
        Cardinality({j \in CoverageAt(doc) : j <= i}) = k

(***************************************************************************)
(* C24: no operation of GeographicCoverage modifies the coverage node or   *)
(* any other state: over a step of a run on a document, the document's     *)
(* elements and the registry of shown warnings stay what they were.        *)
(***************************************************************************)
C24_NoOperationModifiesState ==
    [][batch'.doc = batch.doc /\ batch'.registry = batch.registry]_vars

(***************************************************************************)
(* C25: records are processed independently: in every interleaving, what a *)
(* record has got so far (its kind, its ESRI geometry, its GeoJSON         *)
(* geometry and the warning shown for it) is what the same calls give on   *)
(* that record alone, in an interpreter that has shown no warning yet.     *)
(***************************************************************************)
C25_RecordsIndependent ==
    \A i \in DOMAIN batch.recs :
        LET r == batch.recs[i]
        IN  /\ r.pc >= 1 => r.kind = geom_type(ObjectOf(i), "eml")
            /\ r.pc >= 2 => r.esri = to_esri_geometry(ObjectOf(i))
            /\ r.pc = 3 =>
                 /\ r.geojson = to_geojson_geometry(ObjectOf(i)).val
                 /\ r.shown = Shown(batch.filter, FALSE,
                                    to_geojson_geometry(ObjectOf(i)).warns)

C26_EmittersGuardKind ==
    /\ op = <<"_to_geojson_point">> /\ Kind # Point => ret = None
    /\ op = <<"_to_geojson_polygon">> /\ (Kind = Point \/ Kind = None) =>
         ret = None
    /\ op = <<"to_geojson_geometry">> /\ ret.t = "json" =>
         /\ ret.v.type = Name("Point") => Kind = Point
         /\ ret.v.type = Name("Polygon") => Kind = Envelope \/ Kind = Polygon

\* The point emitter called on a polygon that has its ring
C26_Witness ==
    /\ op = <<"_to_geojson_point">>
    /\ Kind = Polygon
    /\ outer_gring(gc) # None
    /\ ret = None

\* The four bounds as the accessors return them
BoundsOf(g) == <<west(g), east(g), north(g), south(g)>>

Complete(g) == \A i \in 1..4 : BoundsOf(g)[i] # None

(***************************************************************************)
(* C28: whenever geom_type returns 'point' or 'envelope', west, east,      *)
(* north and south are all non-None, so that the ESRI envelope has no null *)
(* xmin, ymin, xmax or ymax and the GeoJSON Point or envelope Polygon      *)
(* lacks no x or y.                                                        *)
(***************************************************************************)
C28_BoxCompleteOrAbsent ==
    op # <<"init">> /\ (Kind = Point \/ Kind = Envelope) =>
        /\ Complete(gc)
        /\ op = <<"to_esri_geometry">> =>
             /\ ret.v.xmin # None
             /\ ret.v.ymin # None
             /\ ret.v.xmax # None
             /\ ret.v.ymax # None

(***************************************************************************)
(* C29: the two emitters agree on absence: to_esri_geometry returns None   *)
(* if and only if to_geojson_geometry returns None on the same coverage,   *)
(* a polygon without an outer ring string included.                        *)
(***************************************************************************)
C29_EmittersAgreeOnAbsence ==
    /\ op = <<"to_esri_geometry">> =>
         (ret = None <=> to_geojson_geometry(gc).val = None)
    /\ op = <<"to_geojson_geometry">> =>
         (ret = None <=> to_esri_geometry(gc) = None)

\* A datasetGPolygon without an outer ring: None from the ESRI emitter, and
\* None from the GeoJSON emitter
C29_Witness ==
    /\ op = <<"to_esri_geometry">>
    /\ Kind = Polygon
    /\ outer_gring(gc) = None
    /\ ret = None
    /\ to_geojson_geometry(gc).val = None

\* The two altitudes are present and differ once converted to meters
AltitudesDiffer == BothPresent /\ MinMeters # MaxMeters

====
